---- MODULE Spec2Model ----
(***************************************************************************)
(* A model of the GRIB2 message decoder of grib-rs.                         *)
(*                                                                         *)
(* Buffers are sequences of bytes (0..255).  The code indexes from 0, TLA+ *)
(* sequences from 1: byte i of the code is data[i + 1] here.               *)
(*                                                                         *)
(* Four specifications share  the variables:                               *)
(*   Spec      Message::parse_all driving Message::parse over a buffer of  *)
(*             concatenated messages, then the per-message and the batch   *)
(*             accessors over the messages it returned;                    *)
(*   SpecSect  LocalUseSection::from_data and read_u32_from_bytes over     *)
(*             small arbitrary buffers and offsets;                        *)
(*   SpecData  Message::data, data_locations and data_at_location over     *)
(*             the decoded fields of one message;                          *)
(*   SpecBits  bits_from_bytes over short byte sequences.                  *)
(***************************************************************************)
EXTENDS Integers, Sequences, FiniteSets, TLC

VARIABLES
    data,       \* the byte buffer handed to the decoder
    desc,       \* how the buffer was built (history only; the code never sees it)
    offset,     \* parse_all: `offset`
    messages,   \* parse_all: `messages`
    pc,         \* position of the running call
    last,       \* the outcome of the latest Message::parse call
    acc,        \* the outcome of the latest per-message accessor calls
    batch,      \* the outcome of the latest batch accessor calls
    sect,       \* SpecSect: the outcome of the latest section-level call
    dmsg,       \* SpecData: the decoded fields of the message under test
    dres        \* SpecData: the outcome of the latest data call

vars == <<data, desc, offset, messages, pc, last, acc, batch, sect, dmsg, dres>>

\* an empty slot (Option::None of a section view)
NoSection == [kind |-> -1, off |-> 0, len |-> 0]

(***************************************************************************)
(* Bounds of the model.                                                     *)
(***************************************************************************)
\* messages concatenated in one buffer
MaxMessages == 2
\* iterations of parse_all's loop that push a message (a declared total
\* length of 0 never advances the offset)
MaxPushed == 3
\* length of the buffers of SpecSect
MaxBufLen == 5

(***************************************************************************)
(* utils.rs                                                                 *)
(***************************************************************************)
RECURSIVE from_be_bytes(_)
from_be_bytes(l) ==
    IF l = <<>> THEN 0
    ELSE l[Len(l)] + 256 * from_be_bytes(SubSeq(l, 1, Len(l) - 1))

\* read_u32_from_bytes, lines 13-21
read_u32_from_bytes(d, o) ==
    IF Len(d) < o + 4 THEN [some |-> FALSE, fault |-> FALSE, v |-> 0]
    ELSE [some |-> TRUE, fault |-> FALSE, v |-> from_be_bytes(SubSeq(d, o + 1, o + 4))]

read_u64_from_bytes(d, o) ==
    IF Len(d) < o + 8 THEN [some |-> FALSE, fault |-> FALSE, v |-> 0]
    ELSE [some |-> TRUE, fault |-> FALSE, v |-> from_be_bytes(SubSeq(d, o + 1, o + 8))]

(***************************************************************************)
(* Section kinds, numbered as GRIB2 numbers them.                          *)
(***************************************************************************)
Indicator == 0
Identification == 1
LocalUse == 2
GridDefinition == 3
ProductDefinition == 4
DataRepresentation == 5
Bitmap == 6
Data == 7
End == 8

\* the eight slots of Message (message.rs, struct Message)
Slots == {Indicator, Identification, GridDefinition, ProductDefinition,
          DataRepresentation, Bitmap, Data, End}

GRIB == <<71, 82, 73, 66>>
SEVENS == <<55, 55, 55, 55>>
IndicatorLen == 16
EndLen == 4

HasAt(d, o, marker) ==
    /\ o + Len(marker) <= Len(d)
    /\ SubSeq(d, o + 1, o + Len(marker)) = marker

\* sections/section.rs, section_length: the 4-byte big-endian length field
section_length(d, o) ==
    LET r == read_u32_from_bytes(d, o) IN IF r.some THEN r.v ELSE 0

\* A section view: its kind, where it starts and its declared byte length.
View(k, o, n) == [kind |-> k, off |-> o, len |-> n]

\* Section::from_data of the section framework: one section at `o`, or the
\* MalformedSection error (ok = FALSE).
Section_from_data(d, o) ==
    IF HasAt(d, o, GRIB) THEN
        IF o + IndicatorLen <= Len(d)
        THEN [ok |-> TRUE, s |-> View(Indicator, o, IndicatorLen)]
        ELSE [ok |-> FALSE, s |-> NoSection]
    ELSE IF HasAt(d, o, SEVENS) THEN [ok |-> TRUE, s |-> View(End, o, EndLen)]
    ELSE IF Len(d) < o + 5 THEN [ok |-> FALSE, s |-> NoSection]
    ELSE LET len == section_length(d, o)
             number == d[o + 5]
         IN  IF len < 5 \/ o + len > Len(d) \/ number \notin 1..7
             THEN [ok |-> FALSE, s |-> NoSection]
             ELSE [ok |-> TRUE, s |-> View(number, o, len)]

(***************************************************************************)
(* sections/local_use.rs                                                    *)
(***************************************************************************)
\* The outcome of LocalUseSection::from_data: the function returns a
\* LocalUseSection and has no error value; the slice data[offset..offset+len]
\* faults when it is out of range.
LocalUseSection_from_data(d, o) ==
    LET len == section_length(d, o) IN
    IF o + len > Len(d)
    THEN [kind |-> "fault", s |-> NoSection]
    ELSE [kind |-> "section", s |-> View(LocalUse, o, len)]

(***************************************************************************)
(* message.rs, Message::parse                                               *)
(***************************************************************************)
EmptySlots == [k \in Slots |-> NoSection]

\* lines 81-90: every slot is unwrapped; unwrap of an empty slot panics
Assemble(slots, read, consumed) ==
    IF \E k \in Slots : slots[k] = NoSection
    THEN [kind |-> "panic", msg |-> EmptySlots, read |-> read, consumed |-> consumed,
          slots |-> slots]
    ELSE [kind |-> "ok", msg |-> slots, read |-> read, consumed |-> consumed,
          slots |-> slots]

\* lines 56-79: the section loop.  `read` (the kinds read so far) is history.
RECURSIVE ParseLoop(_, _, _, _, _, _)
ParseLoop(d, off, current_offset, current_section, slots, read) ==
    IF current_section > 7 THEN Assemble(slots, read, current_offset)
    ELSE LET next_section == Section_from_data(d, off + current_offset) IN
         IF ~next_section.ok
         THEN [kind |-> "err", msg |-> EmptySlots, read |-> read,
               consumed |-> current_offset, slots |-> slots]
         ELSE LET s == next_section.s IN
              ParseLoop(d, off, current_offset + s.len, current_section + 1,
                        IF s.kind = LocalUse THEN slots
                        ELSE [slots EXCEPT ![s.kind] = s],
                        Append(read, s.kind))

Message_parse(d, off) == ParseLoop(d, off, 0, 0, EmptySlots, <<>>)

\* Message::len, lines 161-163: the indicator section's total length field
\* (bytes 8..16 of the indicator section)
Message_len(d, m) == read_u64_from_bytes(d, m[Indicator].off + 8).v

(***************************************************************************)
(* Fields of the sections the accessors read.  Each is one byte of the     *)
(* section's payload.                                                      *)
(***************************************************************************)
\* IndicatorSection::discipline: byte 6 of the indicator section
discipline(d, m) == d[m[Indicator].off + 7]

\* IdentificationSection::reference_date (a time, in hours)
reference_date(d, m) == d[m[Identification].off + 6]

HorizontalAnalysisForecast == 0
LatLng == 0

\* ProductDefinitionSection::product_definition_template: the discriminator
\* selects HorizontalAnalysisForecast or the unsupported marker
product_definition_template(d, m, disc) ==
    LET o == m[ProductDefinition].off IN
    IF d[o + 6] = HorizontalAnalysisForecast
    THEN [kind |-> "HorizontalAnalysisForecast", discipline |-> disc,
          category |-> d[o + 7], number |-> d[o + 8], hours |-> d[o + 9]]
    ELSE [kind |-> "Unsupported", discipline |-> disc,
          category |-> 0, number |-> 0, hours |-> 0]

\* GridDefinitionSection::grid_definition_template: Some for the regular
\* latitude-longitude template, None otherwise
grid_definition_template(d, m) ==
    [some |-> d[m[GridDefinition].off + 6] = LatLng]

(***************************************************************************)
(* templates/product.rs: the parameter table of TemperatureProduct          *)
(***************************************************************************)
NoParameter == [name |-> "", abbrev |-> "", unit |-> ""]

Param(n, a, u) == [name |-> n, abbrev |-> a, unit |-> u]

TemperatureProduct ==
    [n \in {0, 1, 2, 3, 4, 5, 6, 7, 8, 12, 13} |->
        CASE n = 0 -> Param("Temperature", "TMP", "K")
          [] n = 1 -> Param("virtual temperature", "VTMP", "K")
          [] n = 2 -> Param("potential temperature", "POT", "K")
          [] n = 3 -> Param("pseudo-adiabatic potential temperature", "EPOT", "K")
          [] n = 4 -> Param("maximum temperature", "TMAX", "K")
          [] n = 5 -> Param("minimum temperature", "TMIN", "K")
          [] n = 6 -> Param("depoint temperature", "DPT", "K")
          [] n = 7 -> Param("dewpoint depression", "DEPR", "K")
          [] n = 8 -> Param("lapse rate", "LAPR", "Km-1")
          [] n = 12 -> Param("heat index", "HEATX", "K")
          [] n = 13 -> Param("wind chill factor", "WCF", "K")]

\* HorizontalAnalysisForecast template, parameter(): the table the
\* (discipline, category) pair selects, looked up by number
template_parameter(t) ==
    IF t.discipline = 0 /\ t.category = 0 /\ t.number \in DOMAIN TemperatureProduct
    THEN [some |-> TRUE, v |-> TemperatureProduct[t.number]]
    ELSE [some |-> FALSE, v |-> NoParameter]

\* HorizontalAnalysisForecast template, forecast_datetime()
forecast_datetime(t, ref) == ref + t.hours

(***************************************************************************)
(* message.rs: the accessors of one Message                                 *)
(***************************************************************************)
ErrTemplate == "Only HorizontalAnalysisForecast templates are supported at this time"
ErrParameter == "This Product and Parameter is currently not supported"
ErrGrid == "Only latitude longitude templates supported at this time"

OkParam(p) == [ok |-> TRUE, v |-> p, err |-> ""]
ErrParam(e) == [ok |-> FALSE, v |-> NoParameter, err |-> e]
OkDate(t) == [ok |-> TRUE, v |-> t, err |-> ""]
ErrDate(e) == [ok |-> FALSE, v |-> 0, err |-> e]

\* the mutant treats every template as HorizontalAnalysisForecast
parameter_any_template(d, m) ==
    LET t == product_definition_template(d, m, discipline(d, m))
        p == template_parameter(t)
    IN  IF ~p.some THEN ErrParam(ErrParameter) ELSE OkParam(p.v)

\* the mutant resolves a number absent from the table to the table's first
\* entry instead of returning the error
parameter_unknown_defaults(d, m) ==
    LET t == product_definition_template(d, m, discipline(d, m)) IN
    IF t.kind # "HorizontalAnalysisForecast" THEN ErrParam(ErrTemplate)
    ELSE LET p == template_parameter(t) IN
         IF ~p.some THEN OkParam(TemperatureProduct[0]) ELSE OkParam(p.v)

\* Message::parameter, lines 173-193
parameter(d, m) ==
    LET t == product_definition_template(d, m, discipline(d, m)) IN
    IF t.kind # "HorizontalAnalysisForecast" THEN ErrParam(ErrTemplate)
    ELSE LET p == template_parameter(t) IN
         IF ~p.some THEN ErrParam(ErrParameter) ELSE OkParam(p.v)

\* Message::variable_name, lines 195-198
variable_name(d, m) ==
    LET p == parameter(d, m) IN
    [ok |-> p.ok, v |-> p.v.name, err |-> p.err]

\* Message::variable_abbrev, lines 200-203
variable_abbrev(d, m) ==
    LET p == parameter(d, m) IN
    [ok |-> p.ok, v |-> p.v.abbrev, err |-> p.err]

\* Message::forecast_date, lines 209-225
forecast_date(d, m) ==
    LET t == product_definition_template(d, m, discipline(d, m)) IN
    IF t.kind # "HorizontalAnalysisForecast" THEN ErrDate(ErrTemplate)
    ELSE OkDate(forecast_datetime(t, reference_date(d, m)))

NoMetadata ==
    [discipline |-> 0, reference_date |-> 0, forecast_date |-> 0,
     variable_name |-> "", variable_abbreviation |-> "", units |-> ""]

\* Message::metadata, lines 227-268 (the grid geometry fields are not
\* modelled)
metadata(d, m) ==
    IF ~grid_definition_template(d, m).some
    THEN [ok |-> FALSE, v |-> NoMetadata, err |-> ErrGrid]
    ELSE LET p == parameter(d, m) IN
         IF ~p.ok THEN [ok |-> FALSE, v |-> NoMetadata, err |-> p.err]
         ELSE LET f == forecast_date(d, m) IN
              IF ~f.ok THEN [ok |-> FALSE, v |-> NoMetadata, err |-> f.err]
              ELSE [ok |-> TRUE, err |-> "",
                    v |-> [discipline |-> discipline(d, m),
                           reference_date |-> reference_date(d, m),
                           forecast_date |-> f.v,
                           variable_name |-> p.v.name,
                           variable_abbreviation |-> p.v.abbrev,
                           units |-> p.v.unit]]

\* Message::data_locations, lines 286-293: the outcome's kind only; the
\* locations themselves are GridLocations below
data_locations_kind(d, m) ==
    IF ~grid_definition_template(d, m).some
    THEN [ok |-> FALSE, err |-> ErrGrid]
    ELSE [ok |-> TRUE, err |-> ""]

\* Message::data_at_location, lines 295-299: the first early return
data_at_location_kind(d, m) ==
    IF ~grid_definition_template(d, m).some
    THEN [ok |-> FALSE, err |-> ErrGrid]
    ELSE [ok |-> TRUE, err |-> ""]

(***************************************************************************)
(* message.rs: the batch accessors over a collection of messages            *)
(***************************************************************************)
NoneParam == [some |-> FALSE, v |-> NoParameter]
NoneStr == [some |-> FALSE, v |-> ""]
NoneDate == [some |-> FALSE, v |-> 0]

RECURSIVE FilterSome(_)
FilterSome(xs) ==
    IF xs = <<>> THEN <<>>
    ELSE IF xs[1].some THEN <<xs[1]>> \o FilterSome(Tail(xs))
    ELSE FilterSome(Tail(xs))

\* the mutant collects with filter_map: a failing message is dropped
parameters_filter_map(d, ms) ==
    FilterSome([j \in 1..Len(ms) |->
        LET r == parameter(d, ms[j]) IN
        IF r.ok THEN [some |-> TRUE, v |-> r.v] ELSE NoneParam])

\* Message::parameters, lines 139-148
parameters(d, ms) ==
    [j \in 1..Len(ms) |->
        LET r == parameter(d, ms[j]) IN
        IF r.ok THEN [some |-> TRUE, v |-> r.v] ELSE NoneParam]

\* Message::variable_names, lines 109-117
variable_names(d, ms) ==
    LET ps == parameters(d, ms) IN
    [j \in 1..Len(ps) |->
        IF ps[j].some THEN [some |-> TRUE, v |-> ps[j].v.name] ELSE NoneStr]

\* Message::variable_abbrevs, lines 119-127
variable_abbrevs(d, ms) ==
    LET ps == parameters(d, ms) IN
    [j \in 1..Len(ps) |->
        IF ps[j].some THEN [some |-> TRUE, v |-> ps[j].v.abbrev] ELSE NoneStr]

\* Message::units, lines 129-137
units(d, ms) ==
    LET ps == parameters(d, ms) IN
    [j \in 1..Len(ps) |->
        IF ps[j].some THEN [some |-> TRUE, v |-> ps[j].v.unit] ELSE NoneStr]

\* Message::forecast_dates, lines 150-159
forecast_dates(d, ms) ==
    [j \in 1..Len(ms) |->
        LET r == forecast_date(d, ms[j]) IN
        IF r.ok THEN [some |-> TRUE, v |-> r.v] ELSE NoneDate]

(***************************************************************************)
(* The buffers the decoder is run on: messages laid out as section 6 of    *)
(* the specification describes, concatenated, with trailing bytes.         *)
(***************************************************************************)
U32(n) == <<(n \div 16777216) % 256, (n \div 65536) % 256, (n \div 256) % 256, n % 256>>
U64(n) == <<0, 0, 0, 0>> \o U32(n)

Canonical == <<Indicator, Identification, GridDefinition, ProductDefinition,
               DataRepresentation, Bitmap, Data, End>>

\* `order` with a LocalUse section inserted after its first p sections
InsertLocalUse(order, p) ==
    SubSeq(order, 1, p) \o <<LocalUse>> \o SubSeq(order, p + 1, Len(order))

\* A message descriptor: the kinds of its sections in buffer order, how its
\* declared total length relates to its byte length, its template
\* discriminators and parameter number, and whether its Data section
\* declares more bytes than the buffer holds.
Desc(order, total, pt, gt, num, over) ==
    [order |-> order, total |-> total, pt |-> pt, gt |-> gt, num |-> num,
     over |-> over]

Plain(order) == Desc(order, "exact", 0, 0, 0, FALSE)

Descs ==
    {Desc(Canonical, "exact", pt, gt, num, FALSE) :
        pt \in {0, 1}, gt \in {0, 1}, num \in {0, 255}}
    \cup {Desc(Canonical, t, 0, 0, 0, FALSE) : t \in {"zero", "plus", "minus"}}
    \cup {Plain(InsertLocalUse(Canonical, p)) : p \in 1..7}
    \cup {Plain(<<Indicator, Identification, ProductDefinition, GridDefinition,
                  DataRepresentation, Bitmap, Data, End>>),
          Plain(<<Indicator, Identification, GridDefinition, GridDefinition,
                  DataRepresentation, Bitmap, Data, End>>),
          Plain(<<Indicator, Identification, GridDefinition, ProductDefinition,
                  DataRepresentation, Bitmap, Data>>),
          Desc(Canonical, "exact", 0, 0, 0, TRUE)}

SectionBody(k, md) ==
    CASE k = Identification -> <<Identification, 12>>
      [] k = LocalUse -> <<LocalUse, 99>>
      [] k = GridDefinition -> <<GridDefinition, md.gt>>
      [] k = ProductDefinition -> <<ProductDefinition, md.pt, 0, md.num, 6>>
      [] OTHER -> <<k>>

SectionLen(k, md) ==
    CASE k = Indicator -> IndicatorLen
      [] k = End -> EndLen
      [] OTHER -> 4 + Len(SectionBody(k, md))

RECURSIVE OrderLen(_, _)
OrderLen(order, md) ==
    IF order = <<>> THEN 0
    ELSE SectionLen(order[1], md) + OrderLen(Tail(order), md)

DeclaredTotal(md) ==
    LET n == OrderLen(md.order, md) IN
    CASE md.total = "exact" -> n
      [] md.total = "zero" -> 0
      [] md.total = "plus" -> n + 1
      [] md.total = "minus" -> n - 1

EncSection(k, md) ==
    CASE k = Indicator -> GRIB \o <<0, 0, 0, 2>> \o U64(DeclaredTotal(md))
      [] k = End -> SEVENS
      [] k = Data /\ md.over -> U32(200) \o SectionBody(k, md)
      [] OTHER -> U32(SectionLen(k, md)) \o SectionBody(k, md)

RECURSIVE EncOrder(_, _)
EncOrder(order, md) ==
    IF order = <<>> THEN <<>>
    ELSE EncSection(order[1], md) \o EncOrder(Tail(order), md)

EncMessage(md) == EncOrder(md.order, md)

RECURSIVE EncAll(_)
EncAll(ds) == IF ds = <<>> THEN <<>> ELSE EncMessage(ds[1]) \o EncAll(Tail(ds))

\* trailing bytes after the last message: none, or a truncated indicator
Trailing == {<<>>, <<71, 82, 73>>}

DescSeqs == UNION {[1..n -> Descs] : n \in 1..MaxMessages}

(***************************************************************************)
(* Spec: Message::parse_all, then the accessors                             *)
(***************************************************************************)
NoParse == [kind |-> "none", msg |-> EmptySlots, read |-> <<>>, consumed |-> 0,
            slots |-> EmptySlots]
NoLast == [off |-> 0, res |-> NoParse]
NoAcc == [j |-> 0, parameter |-> ErrParam(""), forecast_date |-> ErrDate(""),
          metadata |-> [ok |-> FALSE, v |-> NoMetadata, err |-> ""],
          data_locations |-> [ok |-> FALSE, err |-> ""],
          data_at_location |-> [ok |-> FALSE, err |-> ""]]
NoBatch == [called |-> FALSE, parameters |-> <<>>, variable_names |-> <<>>,
            variable_abbrevs |-> <<>>, units |-> <<>>, forecast_dates |-> <<>>]
NoSect == [kind |-> "none", off |-> 0, read |-> [some |-> FALSE, fault |-> FALSE, v |-> 0],
           local_use |-> [kind |-> "none", s |-> NoSection]]
NoData == [kind |-> "none"]

Init ==
    /\ desc \in DescSeqs
    /\ \E t \in Trailing : data = EncAll(desc) \o t
    /\ offset = 0
    /\ messages = <<>>
    /\ pc = "loop"
    /\ last = NoLast
    /\ acc = NoAcc
    /\ batch = NoBatch
    /\ sect = NoSect
    /\ dmsg = NoData
    /\ dres = NoData

\* parse_all, lines 97-100: the parse at `offset` succeeds; the offset moves
\* on by the message's declared length and the message is pushed
ParseAllPush ==
    /\ pc = "loop"
    /\ offset < Len(data)
    /\ Len(messages) < MaxPushed
    /\ LET r == Message_parse(data, offset) IN
        /\ r.kind = "ok"
        /\ offset' = offset + Message_len(data, r.msg)
        /\ messages' = Append(messages, r.msg)
        /\ last' = [off |-> offset, res |-> r]
    /\ UNCHANGED <<data, desc, pc, acc, batch, sect, dmsg, dres>>

\* parse_all, lines 101-103: the parse at `offset` returns Err; break
ParseAllBreak ==
    /\ pc = "loop"
    /\ offset < Len(data)
    /\ LET r == Message_parse(data, offset) IN
        /\ r.kind = "err"
        /\ last' = [off |-> offset, res |-> r]
    /\ pc' = "returned"
    /\ UNCHANGED <<data, desc, offset, messages, acc, batch, sect, dmsg, dres>>

\* parse_all, line 98: the parse at `offset` panics, and parse_all with it
ParseAllPanic ==
    /\ pc = "loop"
    /\ offset < Len(data)
    /\ LET r == Message_parse(data, offset) IN
        /\ r.kind = "panic"
        /\ last' = [off |-> offset, res |-> r]
    /\ pc' = "panicked"
    /\ UNCHANGED <<data, desc, offset, messages, acc, batch, sect, dmsg, dres>>

\* parse_all, lines 97 and 106: the loop condition fails; return messages
ParseAllReturn ==
    /\ pc = "loop"
    /\ offset >= Len(data)
    /\ pc' = "returned"
    /\ UNCHANGED <<data, desc, offset, messages, last, acc, batch, sect, dmsg, dres>>

\* the per-message accessors called on one of the returned messages
CallAccessors ==
    /\ pc = "returned"
    /\ \E j \in 1..Len(messages) :
        acc' = [j |-> j,
                parameter |-> parameter(data, messages[j]),
                forecast_date |-> forecast_date(data, messages[j]),
                metadata |-> metadata(data, messages[j]),
                data_locations |-> data_locations_kind(data, messages[j]),
                data_at_location |-> data_at_location_kind(data, messages[j])]
    /\ UNCHANGED <<data, desc, offset, messages, pc, last, batch, sect, dmsg, dres>>

\* the batch accessors called on the returned messages
CallBatch ==
    /\ pc = "returned"
    /\ ~batch.called
    /\ batch' = [called |-> TRUE,
                 parameters |-> parameters(data, messages),
                 variable_names |-> variable_names(data, messages),
                 variable_abbrevs |-> variable_abbrevs(data, messages),
                 units |-> units(data, messages),
                 forecast_dates |-> forecast_dates(data, messages)]
    /\ UNCHANGED <<data, desc, offset, messages, pc, last, acc, sect, dmsg, dres>>

Next ==
    \/ ParseAllPush
    \/ ParseAllBreak
    \/ ParseAllPanic
    \/ ParseAllReturn
    \/ CallAccessors
    \/ CallBatch

Spec == Init /\ [][Next]_vars

(***************************************************************************)
(* SpecSect: the section-level constructors over arbitrary small buffers    *)
(***************************************************************************)
ByteVals == {0, 2, 5, 9}

SmallBuffers == UNION {[1..n -> ByteVals] : n \in 0..MaxBufLen}

InitSect ==
    /\ data \in SmallBuffers
    /\ offset \in 0..Len(data)
    /\ desc = <<>>
    /\ messages = <<>>
    /\ pc = "sect"
    /\ last = NoLast
    /\ acc = NoAcc
    /\ batch = NoBatch
    /\ sect = NoSect
    /\ dmsg = NoData
    /\ dres = NoData

CallReadU32 ==
    /\ pc = "sect"
    /\ sect' = [NoSect EXCEPT !.kind = "read_u32", !.off = offset,
                              !.read = read_u32_from_bytes(data, offset)]
    /\ UNCHANGED <<data, desc, offset, messages, pc, last, acc, batch, dmsg, dres>>

CallLocalUse ==
    /\ pc = "sect"
    /\ sect' = [NoSect EXCEPT !.kind = "local_use", !.off = offset,
                              !.local_use = LocalUseSection_from_data(data, offset)]
    /\ UNCHANGED <<data, desc, offset, messages, pc, last, acc, batch, dmsg, dres>>

NextSect ==
    \/ CallReadU32
    \/ CallLocalUse

SpecSect == InitSect /\ [][NextSect]_vars

(***************************************************************************)
(* utils.rs, bits_from_bytes                                                *)
(***************************************************************************)
\* format!("{:b}", r): the binary digits of r, most significant first,
\* without leading zeros ("0" for 0)
RECURSIVE BinaryDigits(_)
BinaryDigits(r) ==
    IF r < 2 THEN <<r>> ELSE BinaryDigits(r \div 2) \o <<r % 2>>

\* bits_from_bytes, lines 33-41: each byte formatted, its characters read
\* back as digits, the digits of all bytes concatenated
RECURSIVE bits_from_bytes(_)
bits_from_bytes(bytes) ==
    IF bytes = <<>> THEN <<>>
    ELSE BinaryDigits(bytes[1]) \o bits_from_bytes(Tail(bytes))

(***************************************************************************)
(* The decoded fields of one message, as Message::data, data_locations and *)
(* data_at_location read them.                                              *)
(***************************************************************************)
\* grid rows and columns range over 1..MaxGrid
MaxGrid == 2

SimplePacking == 0

\* a decoded value (R + raw * 2^E) / 10^D as numerator and denominator
Value(m, raw) == [num |-> m.R + raw * (2 ^ m.E), den |-> 10 ^ m.D]

\* the missing-value sentinel
NaN == [num |-> 0, den |-> 0]

PointCount(m) == m.lat_count * m.lon_count

\* DataSection::raw_bit_data: the payload as a bit stream
raw_bit_data(m) == bits_from_bytes(m.payload)

\* BitmapSection: the presence bits as a bit stream
bitmap_bits(m) == bits_from_bytes(m.bitmap)

\* GridDefinitionSection::grid_definition_template for the decoded message
data_grid_template(m) == [some |-> m.grid = LatLng]

\* DataRepresentationSection::data_representation_template
data_representation_template(m) == [some |-> m.drt = SimplePacking]

\* regular lat-lon template, locations(): row-major, latitude by latitude
locations(m) ==
    [n \in 1..PointCount(m) |->
        <<m.lat0 + m.lat_step * ((n - 1) \div m.lon_count),
          m.lon0 + m.lon_step * ((n - 1) % m.lon_count)>>]

\* the nearest whole number of steps `step` in x (step may be negative)
Nearest(x, step) ==
    IF step > 0 THEN (2 * x + step) \div (2 * step)
    ELSE (2 * (0 - x) + (0 - step)) \div (2 * (0 - step))

ErrBounds == "OutOfBounds"

\* regular lat-lon template, index_for_location()
index_for_location(m, lat, lon) ==
    LET r == Nearest(lat - m.lat0, m.lat_step)
        c == Nearest(lon - m.lon0, m.lon_step)
    IN  IF r \in 0..(m.lat_count - 1) /\ c \in 0..(m.lon_count - 1)
        THEN [ok |-> TRUE, v |-> r * m.lon_count + c, err |-> ""]
        ELSE [ok |-> FALSE, v |-> 0, err |-> ErrBounds]

RECURSIVE from_bits(_)
from_bits(bits) ==
    IF bits = <<>> THEN 0
    ELSE bits[Len(bits)] + 2 * from_bits(SubSeq(bits, 1, Len(bits) - 1))

ErrDecode == "decode failure"

\* simple packing, unpack_range(bits, lo..hi): the values at positions
\* lo..hi-1, each read from the m.width bits at bit offset position * width
unpack_range(m, bits, lo, hi) ==
    IF hi * m.width > Len(bits)
    THEN [ok |-> FALSE, v |-> <<>>, err |-> ErrDecode]
    ELSE [ok |-> TRUE, err |-> "",
          v |-> [n \in 1..(hi - lo) |->
                    Value(m, from_bits(SubSeq(bits, (lo + n - 1) * m.width + 1,
                                                    (lo + n) * m.width)))]]

\* simple packing, unpack_all(bits): every declared value in order
unpack_all(m, bits) == unpack_range(m, bits, 0, m.count)

\* the number of set presence bits before grid index i
RECURSIVE Rank(_, _)
Rank(bits, i) ==
    IF i = 0 THEN 0
    ELSE Rank(bits, i - 1) + (IF bits[i] = 1 THEN 1 ELSE 0)

\* BitmapSection::data_index(i): None when the bitmap marks i absent
data_index(m, i) ==
    IF ~m.has_bitmap THEN [some |-> TRUE, v |-> i]
    ELSE LET bits == bitmap_bits(m) IN
         IF i + 1 > Len(bits) \/ bits[i + 1] # 1 THEN [some |-> FALSE, v |-> 0]
         ELSE [some |-> TRUE, v |-> Rank(bits, i)]

\* BitmapSection::map_data(compact): one entry per grid point; a fault when
\* the bit stream or the compact sequence runs out
map_data(m, compact) ==
    IF ~m.has_bitmap THEN [fault |-> FALSE, v |-> compact]
    ELSE LET bits == bitmap_bits(m)
             n == PointCount(m)
         IN  IF Len(bits) < n
                \/ \E i \in 0..(n - 1) : bits[i + 1] = 1 /\ Rank(bits, i) >= Len(compact)
             THEN [fault |-> TRUE, v |-> <<>>]
             ELSE [fault |-> FALSE,
                   v |-> [j \in 1..n |->
                            IF bits[j] = 1 THEN compact[Rank(bits, j - 1) + 1] ELSE NaN]]

ErrUnpackTemplate == "Failed to unpack the data representation template"
ErrNoData == "No data available at index"

DataOut(k, ok, fault, vals, err) ==
    [kind |-> k, ok |-> ok, fault |-> fault, vals |-> vals, err |-> err,
     locs |-> <<>>, loc |-> <<0, 0>>]

\* Message::data, lines 270-284
Message_data(m) ==
    IF ~data_representation_template(m).some
    THEN DataOut("data", FALSE, FALSE, <<>>, ErrUnpackTemplate)
    ELSE LET u == unpack_all(m, raw_bit_data(m)) IN
         IF ~u.ok THEN DataOut("data", FALSE, FALSE, <<>>, u.err)
         ELSE LET mapped == map_data(m, u.v) IN
              IF mapped.fault THEN DataOut("data", FALSE, TRUE, <<>>, "")
              ELSE DataOut("data", TRUE, FALSE, mapped.v, "")

\* Message::data_locations, lines 286-293
Message_data_locations(m) ==
    IF ~data_grid_template(m).some
    THEN [DataOut("locations", FALSE, FALSE, <<>>, ErrGrid) EXCEPT !.locs = <<>>]
    ELSE [DataOut("locations", TRUE, FALSE, <<>>, "") EXCEPT !.locs = locations(m)]

\* Message::data_at_location, lines 295-319
Message_data_at_location(m, location) ==
    LET out(ok, vals, err) ==
            [DataOut("at", ok, FALSE, vals, err) EXCEPT !.loc = location]
    IN
    IF ~data_grid_template(m).some THEN out(FALSE, <<>>, ErrGrid)
    ELSE LET location_index == index_for_location(m, location[1], location[2]) IN
         IF ~location_index.ok THEN out(FALSE, <<>>, location_index.err)
         ELSE IF ~data_representation_template(m).some
              THEN out(FALSE, <<>>, ErrUnpackTemplate)
         ELSE LET di == data_index(m, location_index.v) IN
              IF ~di.some THEN out(FALSE, <<>>, ErrNoData)
              ELSE LET u == unpack_range(m, raw_bit_data(m), di.v, di.v + 1) IN
                   IF ~u.ok THEN out(FALSE, <<>>, u.err)
                   ELSE out(TRUE, <<u.v[1]>>, "")

(***************************************************************************)
(* SpecData: the data accessors over synthetic messages                     *)
(***************************************************************************)
\* presence bit i (from 0) of the bitmap payload, most significant bit first
PresenceBit(bytes, i) == (bytes[(i \div 8) + 1] \div (2 ^ (7 - (i % 8)))) % 2

RECURSIVE SetBits(_, _)
SetBits(bytes, n) ==
    IF n = 0 THEN 0 ELSE SetBits(bytes, n - 1) + PresenceBit(bytes, n - 1)

CeilDiv(a, b) == (a + b - 1) \div b

FirstBitmapBytes == {240, 80, 160, 15}
FirstPayloadBytes == {15, 128, 200}
Packings == {[R |-> 0, E |-> 0, D |-> 0], [R |-> 3, E |-> 1, D |-> 1]}

DataMessage(rows, cols, step, has, b, width, drt, g, pk, p) ==
    LET n == rows * cols
        bm == IF has THEN [j \in 1..CeilDiv(n, 8) |-> IF j = 1 THEN b ELSE 255]
              ELSE <<>>
        cnt == IF has THEN SetBits(bm, n) ELSE n
    IN  [kind |-> "message", lat_count |-> rows, lon_count |-> cols,
         lat0 |-> 10, lon0 |-> 20, lat_step |-> step, lon_step |-> 3,
         grid |-> g, drt |-> drt, has_bitmap |-> has, bitmap |-> bm,
         width |-> width, count |-> cnt, R |-> pk.R, E |-> pk.E, D |-> pk.D,
         payload |-> [j \in 1..CeilDiv(cnt * width, 8) |-> (p + 16 * (j - 1)) % 256]]

DataMessages ==
    {DataMessage(rows, cols, step, FALSE, 0, width, drt, g, pk, p) :
        rows \in 1..MaxGrid, cols \in 1..MaxGrid, step \in {-2, 2},
        width \in {4, 8}, drt \in {SimplePacking, 1}, g \in {LatLng}, pk \in Packings,
        p \in FirstPayloadBytes}
    \cup {DataMessage(rows, cols, 2, TRUE, b, width, SimplePacking, g, pk, p) :
        rows \in 1..MaxGrid, cols \in 1..MaxGrid, b \in FirstBitmapBytes,
        width \in {4, 8}, g \in {LatLng, 1}, pk \in Packings, p \in FirstPayloadBytes}

InitData ==
    /\ dmsg \in DataMessages
    /\ dres = NoData
    /\ data = <<>>
    /\ desc = <<>>
    /\ offset = 0
    /\ messages = <<>>
    /\ pc = "data"
    /\ last = NoLast
    /\ acc = NoAcc
    /\ batch = NoBatch
    /\ sect = NoSect

CallData ==
    /\ pc = "data"
    /\ dres' = Message_data(dmsg)
    /\ UNCHANGED <<data, desc, offset, messages, pc, last, acc, batch, sect, dmsg>>

CallDataLocations ==
    /\ pc = "data"
    /\ dres' = Message_data_locations(dmsg)
    /\ UNCHANGED <<data, desc, offset, messages, pc, last, acc, batch, sect, dmsg>>

\* a location of the grid, one off the grid by less than half a step, or one
\* outside its extent
CallDataAtLocation ==
    /\ pc = "data"
    /\ \E location \in {locations(dmsg)[n] : n \in 1..PointCount(dmsg)}
                       \cup {<<11, 20>>, <<10, 500>>} :
        dres' = Message_data_at_location(dmsg, location)
    /\ UNCHANGED <<data, desc, offset, messages, pc, last, acc, batch, sect, dmsg>>

NextData ==
    \/ CallData
    \/ CallDataLocations
    \/ CallDataAtLocation

SpecData == InitData /\ [][NextData]_vars

(***************************************************************************)
(* SpecBits: bits_from_bytes over short byte sequences                      *)
(***************************************************************************)
\* length of the byte sequences of SpecBits
MaxBytes == 2

SampleBytes == {0, 1, 2, 15, 80, 127, 128, 160, 240, 255}

InitBits ==
    /\ data \in UNION {[1..n -> SampleBytes] : n \in 0..MaxBytes}
    /\ dres = NoData
    /\ dmsg = NoData
    /\ desc = <<>>
    /\ offset = 0
    /\ messages = <<>>
    /\ pc = "bits"
    /\ last = NoLast
    /\ acc = NoAcc
    /\ batch = NoBatch
    /\ sect = NoSect

CallBitsFromBytes ==
    /\ pc = "bits"
    /\ dres' = [kind |-> "bits", bits |-> bits_from_bytes(data)]
    /\ UNCHANGED <<data, desc, offset, messages, pc, last, acc, batch, sect, dmsg>>

NextBits == CallBitsFromBytes

SpecBits == InitBits /\ [][NextBits]_vars

(***************************************************************************)
(* Properties                                                               *)
(***************************************************************************)
Parsed == last.res.kind # "none"

\* C1: Message::parse is all-or-nothing: it returns either a Message with all
\* eight slots populated or an error value; an unpopulated slot after the
\* section loop gives an error result, never a fault.
C1_AllOrNothing ==
    Parsed =>
        /\ last.res.kind \in {"ok", "err"}
        /\ last.res.kind = "ok" => \A k \in Slots : last.res.msg[k] # NoSection
        /\ (\E k \in Slots : last.res.slots[k] = NoSection) => last.res.kind = "err"

SectionBytes(d, s) == SubSeq(d, s.off + 1, s.off + s.len)

\* the sections of two messages hold the same bytes (the indicator's total
\* length field aside, which counts the inserted section)
SameSections(d1, m1, d2, m2) ==
    /\ \A k \in Slots \ {Indicator} : SectionBytes(d1, m1[k]) = SectionBytes(d2, m2[k])
    /\ SubSeq(SectionBytes(d1, m1[Indicator]), 1, 8)
         = SubSeq(SectionBytes(d2, m2[Indicator]), 1, 8)

\* C2: a well-formed message with one LocalUse section inserted between
\* Indicator and End still parses, to the same eight sections as the message
\* without it.
C2_LocalUseSkipped ==
    \A p \in 1..7 :
        (Parsed /\ last.off = 0 /\ desc[1] = Plain(InsertLocalUse(Canonical, p))) =>
            /\ last.res.kind = "ok"
            /\ LET d0 == EncMessage(Plain(Canonical)) IN
               SameSections(data, last.res.msg, d0, Message_parse(d0, 0).msg)

WellOrdered(read) ==
    /\ SelectSeq(read, LAMBDA k : k # LocalUse) = Canonical
    /\ Len(SelectSeq(read, LAMBDA k : k = LocalUse)) <= 1

\* C3: parse returns a Message only when the sections read were one of each
\* mandatory kind, at most one LocalUse, in ascending order; sections out of
\* order or with a mandatory kind repeated are rejected with an error.
C3_StateMachine ==
    Parsed =>
        /\ last.res.kind = "ok" => WellOrdered(last.res.read)
        /\ (Len(last.res.read) >= 8 /\ ~WellOrdered(last.res.read)) => last.res.kind = "err"

WellFormed(md) ==
    /\ md.total = "exact"
    /\ ~md.over
    /\ \/ md.order = Canonical
       \/ \E p \in 1..7 : md.order = InsertLocalUse(Canonical, p)

RECURSIVE LeadingRun(_)
LeadingRun(ds) ==
    IF ds = <<>> \/ ~WellFormed(ds[1]) THEN 0 ELSE 1 + LeadingRun(Tail(ds))

\* C4: parse_all never fails the call and returns exactly the leading run of
\* well-formed messages of the buffer.
C4_LeadingRun ==
    /\ pc # "panicked"
    /\ pc = "returned" => Len(messages) = LeadingRun(desc)

\* C5: for every Message parse returns, the declared total length equals the
\* bytes consumed from the message start through the End section.
C5_LenIsConsumed ==
    (Parsed /\ last.res.kind = "ok") =>
        Message_len(data, last.res.msg) = last.res.consumed

\* C6: when fewer bytes remain than the length field needs, or the declared
\* length exceeds the bytes remaining, construction reports a
\* MalformedSection error and never slices out of range.
C6_LengthValidated ==
    sect.kind = "local_use" =>
        /\ sect.local_use.kind # "fault"
        /\ (Len(data) < sect.off + 4 \/ sect.off + section_length(data, sect.off) > Len(data))
             => sect.local_use.kind = "err"

ProductDiscriminator(m) == data[m[ProductDefinition].off + 6]
GridDiscriminator(m) == data[m[GridDefinition].off + 6]

IsErr(r, cause) == ~r.ok /\ r.err = cause

\* C9: a message with an unimplemented product or grid discriminator parses;
\* on it parameter, forecast_date and metadata (and data_locations and
\* data_at_location for the grid) return an error with its cause, and
\* metadata fails whenever the grid template, the parameter or the forecast
\* date fails.
C9_UnsupportedIsRecoverable ==
    /\ (Parsed /\ last.off = 0 /\ desc[1].order = Canonical /\ ~desc[1].over)
            => last.res.kind = "ok"
    /\ acc.j > 0 =>
        LET m == messages[acc.j] IN
        /\ ProductDiscriminator(m) # HorizontalAnalysisForecast =>
                /\ IsErr(acc.parameter, ErrTemplate)
                /\ IsErr(acc.forecast_date, ErrTemplate)
                /\ ~acc.metadata.ok /\ acc.metadata.err # ""
        /\ GridDiscriminator(m) # LatLng =>
                /\ IsErr(acc.metadata, ErrGrid)
                /\ IsErr(acc.data_locations, ErrGrid)
                /\ IsErr(acc.data_at_location, ErrGrid)
        /\ (~acc.parameter.ok \/ ~acc.forecast_date.ok \/ ~acc.data_locations.ok)
                => ~acc.metadata.ok /\ acc.metadata.err # ""

C9_Witness ==
    /\ acc.j > 0
    /\ ProductDiscriminator(messages[acc.j]) # HorizontalAnalysisForecast
    /\ GridDiscriminator(messages[acc.j]) # LatLng
    /\ ~acc.parameter.ok
    /\ ~acc.metadata.ok

\* the entries of `out` are those of the per-message accessor `f`, message by
\* message: present with its value where it succeeds, absent where it fails
MapsEach(out, f(_), none) ==
    /\ Len(out) = Len(messages)
    /\ \A j \in 1..Len(messages) :
        LET r == f(messages[j]) IN
        out[j] = IF r.ok THEN [some |-> TRUE, v |-> r.v] ELSE none

\* C10: the batch accessors over k messages return k entries in order, entry
\* j present with the per-message accessor's value when it succeeds on
\* message j and absent when it fails.
C10_BatchPerItem ==
    batch.called =>
        /\ MapsEach(batch.parameters, LAMBDA m : parameter(data, m), NoneParam)
        /\ MapsEach(batch.variable_names, LAMBDA m : variable_name(data, m), NoneStr)
        /\ MapsEach(batch.variable_abbrevs, LAMBDA m : variable_abbrev(data, m), NoneStr)
        /\ MapsEach(batch.units,
                    LAMBDA m : LET r == parameter(data, m) IN
                               [ok |-> r.ok, v |-> r.v.unit, err |-> r.err],
                    NoneStr)
        /\ MapsEach(batch.forecast_dates, LAMBDA m : forecast_date(data, m), NoneDate)

C10_Witness ==
    /\ batch.called
    /\ Len(messages) = 2
    /\ batch.parameters[1].some
    /\ ~batch.parameters[2].some
    /\ batch.forecast_dates[2].some

Supported(m) == m.grid = LatLng /\ m.drt = SimplePacking

\* C7: for a no-bitmap message with N grid points, data() and
\* data_locations() have length N, and data_at_location at the i-th location
\* succeeds and equals the i-th entry of data().
C7_PointMatchesFull ==
    (dmsg.kind = "message" /\ ~dmsg.has_bitmap /\ Supported(dmsg)) =>
        LET n == PointCount(dmsg)
            full == Message_data(dmsg)
        IN  /\ dres.kind = "data" => dres.ok /\ Len(dres.vals) = n
            /\ dres.kind = "locations" => dres.ok /\ Len(dres.locs) = n
            /\ \A i \in 1..n :
                (dres.kind = "at" /\ dres.loc = locations(dmsg)[i]) =>
                    /\ dres.ok
                    /\ full.ok
                    /\ dres.vals[1] = full.vals[i]

\* C8: whenever data() succeeds its output has one entry per grid point, the
\* sentinel at every position the bitmap marks absent and the decoded values
\* in grid order elsewhere.
C8_OneEntryPerPoint ==
    (dres.kind = "data" /\ dres.ok) =>
        LET n == PointCount(dmsg)
            compact == unpack_all(dmsg, raw_bit_data(dmsg)).v
        IN  /\ Len(dres.vals) = n
            /\ \A i \in 0..(n - 1) :
                IF dmsg.has_bitmap /\ PresenceBit(dmsg.bitmap, i) = 0
                THEN dres.vals[i + 1] = NaN
                ELSE dres.vals[i + 1] =
                        compact[(IF dmsg.has_bitmap THEN SetBits(dmsg.bitmap, i) ELSE i) + 1]

ParameterTriple(m) ==
    LET o == m[ProductDefinition].off IN
    <<discipline(data, m), data[o + 7], data[o + 8]>>

C12_PushAdvances ==
    [][Len(messages') > Len(messages) => offset' > offset]_vars

\* C13: bits_from_bytes of k bytes has 8 * k entries, each 0 or 1, entry
\* 8 * b + j being bit (7 - j) of byte b.
C13_MsbFirstStream ==
    dres.kind = "bits" =>
        /\ Len(dres.bits) = 8 * Len(data)
        /\ \A n \in 0..(8 * Len(data) - 1) :
            /\ dres.bits[n + 1] \in {0, 1}
            /\ dres.bits[n + 1] = PresenceBit(data, n)

\* C14: for a message with a bitmap and a grid index i, data_at_location at
\* the location of i fails with the no-data error exactly when the bitmap
\* marks i absent; otherwise it returns the value at the compact position
\* given by the set presence bits before i, equal to data()[i].  A location
\* outside the grid extent fails with OutOfBounds.
C14_PointLookupWithBitmap ==
    (dmsg.kind = "message" /\ dmsg.has_bitmap /\ Supported(dmsg) /\ dres.kind = "at") =>
        LET full == Message_data(dmsg)
            compact == unpack_all(dmsg, raw_bit_data(dmsg))
        IN  /\ \A i \in 0..(PointCount(dmsg) - 1) :
                dres.loc = locations(dmsg)[i + 1] =>
                    IF PresenceBit(dmsg.bitmap, i) = 0
                    THEN /\ IsErr(dres, ErrNoData)
                         /\ full.ok => full.vals[i + 1] = NaN
                    ELSE /\ dres.ok
                         /\ compact.ok
                         /\ dres.vals[1] = compact.v[SetBits(dmsg.bitmap, i) + 1]
                         /\ full.ok
                         /\ dres.vals[1] = full.vals[i + 1]
            /\ dres.loc = <<10, 500>> => IsErr(dres, ErrBounds)

====
